---- MODULE Spec2Model ----
(***************************************************************************)
(* Model of the patoka Vulkan HAL: the Renderer's frame-slot rotation, the *)
(* Fence/Semaphore wrappers, the CommandList, the DescriptorSet, the       *)
(* Arc-based resource ownership, and the frame loop of src/bin/main.rs.    *)
(* The GPU queue and the presentation engine are the environment: they     *)
(* process what the native calls hand them, at any speed.                  *)
(***************************************************************************)
EXTENDS Integers, Sequences, FiniteSets, TLC

\* render/hal/vulkan/mod.rs:9
FRAME_OVERLAP == 2

\* renderer.rs:353, min_image_count(3): the swapchain image list
NumImages == 3

\* iterations of main's loop that the model follows
MaxFrames == 4

\* iterations of main's loop that the fair, failure-free run follows (LiveSpec)
MaxLiveFrames == 3

\* API calls of one free call sequence (ApiSpec)
MaxCalls == 3

\* commands recorded into one command buffer in a free call sequence
MaxCmds == 1

\* handles the CommandList retains in a free bind/drop sequence (OwnSpec)
MaxOwned == 4

\* submissions made before the caller drops everything (DropSpec)
MaxSubmits == 1

\* handles the CommandList retains before the caller drops everything
\* (ReleaseSpec, DropSpec)
MaxDropOwned == 2

\* API calls of one record/submit/drop sequence (UseSpec)
MaxUseCalls == 4

Slots == 0 .. (FRAME_OVERLAP - 1)

\* the two Semaphore wrappers main creates (main.rs:41-47)
SemObjs == {"swapchain_semaphore", "render_semaphore"}

\* the Arc-shared resource-binding objects main creates (main.rs:58-95)
Objs == {"descriptor_set_layout", "descriptor_set", "shader", "pipeline_layout", "pipeline"}

\* descriptor binding indices a caller may write
MaxBinding == 1

\* queue families a physical device may report (SelectSpec)
MaxFamilies == 3

Bindings == 0 .. MaxBinding

\* vk::ImageLayout values: those the program passes, the depth layout it tests for,
\* and the other attachment layouts a caller may pass
Layouts == {"UNDEFINED", "GENERAL", "TRANSFER_SRC_OPTIMAL", "TRANSFER_DST_OPTIMAL",
            "PRESENT_SRC_KHR", "DEPTH_ATTACHMENT_OPTIMAL",
            "DEPTH_STENCIL_ATTACHMENT_OPTIMAL", "DEPTH_READ_ONLY_OPTIMAL",
            "COLOR_ATTACHMENT_OPTIMAL"}

VARIABLES
    frame_number,         \* Renderer.frame_number: Cell<usize>
    swapchain_image_idx,  \* Renderer.swapchain_image_idx: Cell<u32>
    fences,               \* Fence.fences: native fence of each slot, TRUE = signaled
    semaphores,           \* Semaphore.semaphores of both wrappers, TRUE = signaled
    command_buffers,      \* CommandList.command_buffers: state and recorded commands per slot
    owned_resources,      \* CommandList.owned_resources: Vec of Arc handles
    cl_alive,             \* the CommandList instance exists
    descriptor_sets,      \* DescriptorSet.descriptor_sets: binding state per slot
    arc,                  \* per object: Arc strong count and native destroy calls issued
    handles,              \* per object: Arc handles the caller (main's locals) still holds
    queue,                \* every operation handed to graphics_queue, in submission order
    acquires,             \* every image acquire handed to the presentation engine
    pc,                   \* main's position in the loop ("api" in a free call sequence)
    frames,               \* number of present() calls that have returned
    n_calls,              \* API calls made in a free call sequence
    calls,                \* the calls of the current loop iteration, in order
    cb_at,                \* frame -> slot of the command buffer begin() started recording
    bound,                \* objects bound into the CommandList so far
    texture,              \* main's Texture: whether it exists, native destroy calls issued
    locals,               \* the non-Arc owners of an Arc<Renderer> the caller still holds
    teardown,             \* the native calls Renderer's drop has issued, in order
    props,                \* the selected device's queue families: graphics flag, present support
    graphics_queue,       \* Renderer.graphics_queue: the family index its queue was taken from
    present_queue,        \* Renderer.present_queue: the family index its queue was taken from
    last                  \* the last API call: its name, the slot it saw, whether it returned

vars == <<frame_number, swapchain_image_idx, fences, semaphores, command_buffers,
          owned_resources, cl_alive, descriptor_sets, arc, handles, queue, acquires,
          pc, frames, n_calls, calls, cb_at, bound, texture, locals, teardown, last,
          props, graphics_queue, present_queue>>

rendererVars == <<frame_number, swapchain_image_idx>>
syncVars == <<fences, semaphores>>
clVars == <<command_buffers, owned_resources, cl_alive, bound>>
ownVars == <<arc, handles, texture, locals, teardown>>
gpuVars == <<queue, acquires>>
devVars == <<props, graphics_queue, present_queue>>

----------------------------------------------------------------------------
\* Renderer::current_frame and the per-slot accessors

current_frame == frame_number

\* variant: every slot shares the first slot's native semaphore
Semaphore_get_raw_first(sem) == <<sem, 0>>

\* sync.rs:27-29, self.semaphores[frame]
Semaphore_get_raw(sem) == <<sem, current_frame>>

\* variant: the fence of the first slot, whatever the current slot
Fence_get_raw_first == CHOOSE s \in Slots : \A t \in Slots : s <= t

\* sync.rs:68-70
Fence_get_raw == current_frame

\* variant: a single command buffer shared by every frame
CommandList_get_current_first == CHOOSE s \in Slots : \A t \in Slots : s <= t

\* command_list.rs:33-36, self.command_buffers[self.renderer.current_frame()]
CommandList_get_current == current_frame

\* variant: every frame uses the first slot's descriptor-set instance
DescriptorSet_get_current_first == CHOOSE s \in Slots : \A t \in Slots : s <= t

\* descriptor_set.rs:91-93, self.descriptor_sets[self.renderer.current_frame()]
DescriptorSet_get_current == current_frame

Renderer_get_current_swapchain_img == <<"swapchain", swapchain_image_idx>>

\* variant: fences created without the SIGNALED flag
Fence_new_unsignaled == [s \in Slots |-> FALSE]

\* Fence::new: FenceCreateFlags::SIGNALED on every slot's fence
Fence_new == [s \in Slots |-> TRUE]

\* Semaphore::new: default create info, unsignaled
Semaphore_new == [n \in SemObjs \X Slots |-> FALSE]

\* CommandList::new: FRAME_OVERLAP primary buffers, nothing retained
CommandList_new == [s \in Slots |-> [state |-> "initial", cmds |-> <<>>]]

\* what a call saw when it was made: the current slot and the length of the queue
Call(op, ok) == [op |-> op, slot |-> current_frame, ok |-> ok, qlen |-> Len(queue)]

----------------------------------------------------------------------------
\* Arc ownership of the resource-binding objects

\* variant: a ComputePipeline that keeps its layout but not its shader
FieldsNoShader(o) ==
    CASE o = "pipeline" -> <<"pipeline_layout">>
      [] o = "pipeline_layout" -> <<"descriptor_set_layout">>
      [] o = "descriptor_set" -> <<"descriptor_set_layout">>
      [] OTHER -> <<>>

\* variant: the descriptor-set layout holds a handle back to the pipeline layout
FieldsWithBackRef(o) ==
    CASE o = "pipeline" -> <<"pipeline_layout", "shader">>
      [] o = "pipeline_layout" -> <<"descriptor_set_layout">>
      [] o = "descriptor_set" -> <<"descriptor_set_layout">>
      [] o = "descriptor_set_layout" -> <<"pipeline_layout">>
      [] OTHER -> <<>>

\* the Arc fields each struct holds, in declaration order
Fields(o) ==
    CASE o = "pipeline" -> <<"pipeline_layout", "shader">>
      [] o = "pipeline_layout" -> <<"descriptor_set_layout">>
      [] o = "descriptor_set" -> <<"descriptor_set_layout">>
      [] OTHER -> <<>>

Holders(o) == {p \in Objs : \E i \in DOMAIN Fields(p) : Fields(p)[i] = o}

RECURSIVE ArcDrop(_, _)
RECURSIVE DropAll(_, _)

\* variant: the destroy is issued when one reference is still left
ArcDropEarly(a, o) ==
    LET a1 == [a EXCEPT ![o].strong = @ - 1]
    IN  IF a1[o].strong > 1
        THEN a1
        ELSE DropAll([a1 EXCEPT ![o].destroyed = @ + 1], Fields(o))

\* drop of one Arc handle to o: the count goes down, and at zero the object's
\* Drop impl issues its native destroy and then its fields are dropped
ArcDrop(a, o) ==
    LET a1 == [a EXCEPT ![o].strong = @ - 1]
    IN  IF a1[o].strong # 0
        THEN a1
        ELSE DropAll([a1 EXCEPT ![o].destroyed = @ + 1], Fields(o))

\* drop of a Vec of Arc handles, front to back
DropAll(a, hs) ==
    IF hs = <<>> THEN a ELSE DropAll(ArcDrop(a, Head(hs)), Tail(hs))

ArcClone(a, o) == [a EXCEPT ![o].strong = @ + 1]

\* variant: the handle is not stored (a by-value handle that is not moved anywhere
\* is dropped when the call returns)
PushForgotten(owned, h) == [vec |-> owned, kept |-> FALSE]

\* self.owned_resources.push(h): the handle moves into the Vec
Push(owned, h) == [vec |-> Append(owned, h), kept |-> TRUE]

----------------------------------------------------------------------------
\* Texture (image.rs) and the Renderer's own lifetime (renderer.rs)

\* Texture::new: the image with its allocation and the image view exist
Texture_new == [alive |-> TRUE, views_destroyed |-> 0, images_freed |-> 0]

\* image.rs:66-71, Drop for Texture: destroy_image_view, then allocator.destroy_image
Texture_drop(t) ==
    [alive |-> FALSE, views_destroyed |-> t.views_destroyed + 1,
     images_freed |-> t.images_freed + 1]

\* main's locals that hold an Arc<Renderer> and are neither Arc-shared objects nor
\* the CommandList nor the Texture: the handle itself and the sync wrappers
RendererOwners == {"renderer", "render_fence", "swapchain_semaphore", "render_semaphore"}

\* variant: the Texture holds no reference to the Renderer
RendererStrongNoTexture(a, tex, loc, cl) ==
    Cardinality({o \in Objs : a[o].destroyed = 0}) + Cardinality(loc) + (IF cl THEN 1 ELSE 0)

\* strong count of the Arc<Renderer>: one per live object that has a renderer field
RendererStrong(a, tex, loc, cl) ==
    Cardinality({o \in Objs : a[o].destroyed = 0})
      + (IF tex.alive THEN 1 ELSE 0) + Cardinality(loc) + (IF cl THEN 1 ELSE 0)

\* Renderer::new (renderer.rs:256-426): the native objects in the order it creates them
ConstructionOrder ==
    << "instance", "debug_callback", "surface", "device", "swapchain",
       "swapchain_imageviews", "command_pool", "allocator", "descriptor_pool" >>

\* Drop for Renderer (renderer.rs:484-501): the calls of the drop body in order
Renderer_drop_body ==
    << "device_wait_idle", "descriptor_pool", "command_pool", "swapchain_imageviews",
       "swapchain", "surface", "device", "debug_callback", "instance" >>

\* the fields with a destructor of their own, dropped after the drop body returns
\* (renderer.rs:45, allocator: vk_mem::Allocator)
Renderer_field_drops == << "allocator" >>

\* the release of an Arc<Renderer> by a step: the last one starts Renderer's drop,
\* which first calls device_wait_idle
RendererRelease ==
    teardown' = IF teardown = <<>> /\ RendererStrong(arc', texture', locals', cl_alive') = 0
                THEN <<Renderer_drop_body[1]>>
                ELSE teardown

----------------------------------------------------------------------------
\* Device selection (renderer.rs:168-213) and the queues Renderer::new takes

\* Option<T>: None is the empty tuple, Some(x) is <<x>>
None == <<>>

\* the lists get_physical_device_queue_family_properties can return: a device
\* reports at least one family. Of each vk::QueueFamilyProperties the model keeps
\* what find_queue_families reads: whether queue_flags contains GRAPHICS, and what
\* get_physical_device_surface_support answers for the family
FamilyLists ==
    UNION {[1 .. n -> [graphics : BOOLEAN, present : BOOLEAN]] : n \in 1 .. MaxFamilies}

\* the body of the for loop from index idx on, with the two Options found so far;
\* the graphics branch ends in `continue`, so the family it takes is not asked
\* for present support
RECURSIVE find_queue_families_loop(_, _, _, _)
find_queue_families_loop(p, idx, graphics, present) ==
    IF idx >= Len(p)
    THEN <<graphics, present>>
    ELSE LET family == p[idx + 1]
         IN  IF graphics = None /\ family.graphics
             THEN find_queue_families_loop(p, idx + 1, <<idx>>, present)
             ELSE IF present = None /\ family.present
                  THEN find_queue_families_loop(p, idx + 1, graphics, <<idx>>)
                  ELSE find_queue_families_loop(p, idx + 1, graphics, present)

\* Some((graphics, present)) when both were found, None otherwise
find_queue_families(p) ==
    LET found == find_queue_families_loop(p, 0, None, None)
    IN  IF found[1] # None /\ found[2] # None
        THEN << <<found[1][1], found[2][1]>> >>
        ELSE None

\* the families get_physical_device_surface_support is called for: all but the
\* first graphics family
QueriedFamilies(p) ==
    {idx \in 0 .. (Len(p) - 1) :
        ~(p[idx + 1].graphics /\ \A j \in 0 .. (idx - 1) : ~p[j + 1].graphics)}

\* select_physical_device over the one device of the machine, which passes the
\* extension and feature checks: the surface-support query is unwrapped, and
\* a device without the two families fails the expect(). last.ok records whether
\* the native query succeeded.
Renderer_select_physical_device(ok) ==
    /\ pc = "select_physical_device"
    /\ ~ok => QueriedFamilies(props) # {}
    /\ pc' = IF ok /\ find_queue_families(props) # None THEN "create_device" ELSE "panicked"
    /\ last' = Call("select_physical_device", ok)
    /\ UNCHANGED <<rendererVars, syncVars, clVars, descriptor_sets, ownVars, gpuVars,
                   frames, n_calls, calls, cb_at, devVars>>

\* renderer.rs:306-346: create_device(..).unwrap() with one queue of each selected
\* family, then get_device_queue(present_family_idx, 0) and
\* get_device_queue(graphics_family_idx, 0)
Renderer_create_device(ok) ==
    /\ pc = "create_device"
    /\ LET selected == find_queue_families(props)[1]
       IN  /\ graphics_queue' = IF ok THEN selected[1] ELSE graphics_queue
           /\ present_queue' = IF ok THEN selected[2] ELSE present_queue
    /\ pc' = IF ok THEN "api" ELSE "panicked"
    /\ last' = Call("create_device", ok)
    /\ UNCHANGED <<rendererVars, syncVars, clVars, descriptor_sets, ownVars, gpuVars,
                   frames, n_calls, calls, cb_at, props>>

\* the device main's machine has: family 0 does graphics and presents, family 1
\* presents only
MainDevice ==
    << [graphics |-> TRUE, present |-> TRUE], [graphics |-> FALSE, present |-> TRUE] >>

----------------------------------------------------------------------------
\* the state after main's construction block (main.rs:27-95)

InitDevice ==
    /\ props = MainDevice
    /\ graphics_queue = find_queue_families(MainDevice)[1][1]
    /\ present_queue = find_queue_families(MainDevice)[1][2]

InitObjects ==
    /\ frame_number = 0
    /\ swapchain_image_idx = 0
    /\ fences = Fence_new
    /\ semaphores = Semaphore_new
    /\ command_buffers = CommandList_new
    /\ owned_resources = <<>>
    /\ cl_alive = TRUE
    /\ descriptor_sets = [s \in Slots |-> [b \in Bindings |-> "none"]]
    /\ handles = [o \in Objs |-> 1]
    /\ arc = [o \in Objs |-> [strong |-> 1 + Cardinality(Holders(o)), destroyed |-> 0]]
    /\ queue = <<>>
    /\ acquires = <<>>
    /\ frames = 0
    /\ n_calls = 0
    /\ calls = <<>>
    /\ cb_at = <<>>
    /\ bound = {}
    /\ texture = Texture_new
    /\ locals = RendererOwners
    /\ teardown = <<>>
    /\ last = [op |-> "new", slot |-> 0, ok |-> TRUE, qlen |-> 0]

InitState == InitObjects /\ InitDevice

Init == InitState /\ pc = "fence_wait"

InitApi == InitState /\ pc = "api"

----------------------------------------------------------------------------
\* Fence (sync.rs:72-80). A failed or timed-out native call is unwrap()ed: panic.

\* variant: a wait that returns whether or not the fence has signaled
WaitReturnsAlways(frame) == TRUE

\* sync.rs:74, wait_for_fences(&fences[frame..frame + 1], true, 1000000000).unwrap():
\* the call returns Ok only once the fence is signaled
WaitReturns(frame) == fences[frame]

Fence_wait(ok) ==
    LET frame == current_frame
    IN  /\ ok => WaitReturns(frame)
        /\ last' = Call("fence_wait", ok)
        /\ UNCHANGED <<rendererVars, syncVars, clVars, descriptor_sets, ownVars,
                       gpuVars, frames, cb_at>>

\* variant: a reset that leaves the fence as it is
Fence_reset_noop(ok) ==
    /\ last' = Call("fence_reset", ok)
    /\ UNCHANGED <<rendererVars, syncVars, clVars, descriptor_sets, ownVars,
                   gpuVars, frames, cb_at>>

\* sync.rs:77-80, reset_fences(&fences[frame..frame + 1]).unwrap()
Fence_reset(ok) ==
    LET frame == current_frame
    IN  /\ fences' = IF ok THEN [fences EXCEPT ![frame] = FALSE] ELSE fences
        /\ last' = Call("fence_reset", ok)
        /\ UNCHANGED <<rendererVars, semaphores, clVars, descriptor_sets, ownVars,
                       gpuVars, frames, cb_at>>

----------------------------------------------------------------------------
\* Renderer (renderer.rs:428-481)

\* the acquire handed to the presentation engine by acquire_next_image
AcquireOp(signal_semaphore, idx) ==
    [frame |-> frames, at |-> current_frame, sem |-> Semaphore_get_raw(signal_semaphore),
     img |-> idx, done |-> FALSE]

\* variant: the acquired index is not stored
Renderer_start_frame_unstored(signal_semaphore, idx, ok) ==
    /\ acquires' = IF ok THEN Append(acquires, AcquireOp(signal_semaphore, idx)) ELSE acquires
    /\ last' = Call("start_frame", ok)
    /\ UNCHANGED <<rendererVars, syncVars, clVars, descriptor_sets, ownVars, queue,
                   frames, cb_at>>

\* renderer.rs:432-437: acquire_next_image(..).unwrap(), then the index is stored
Renderer_start_frame(signal_semaphore, idx, ok) ==
    /\ acquires' = IF ok THEN Append(acquires, AcquireOp(signal_semaphore, idx)) ELSE acquires
    /\ swapchain_image_idx' = IF ok THEN idx ELSE swapchain_image_idx
    /\ last' = Call("start_frame", ok)
    /\ UNCHANGED <<frame_number, syncVars, clVars, descriptor_sets, ownVars, queue,
                   frames, cb_at>>

\* the descriptor-set instances (slots) the commands of a buffer bind
CbSets(cmds) ==
    {cmds[k].set[2] : k \in {j \in DOMAIN cmds : cmds[j].cmd = "bind_descriptor_sets"}}

\* the objects one recorded command makes the GPU use when it executes
CmdRefs(c) ==
    CASE c.cmd = "pipeline_barrier2" -> IF c.image[1] = "texture" THEN {"texture"} ELSE {}
      [] c.cmd = "blit_image2" -> IF c.src_image[1] = "texture" THEN {"texture"} ELSE {}
      [] c.cmd = "bind_pipeline" -> {c.pipeline}
      [] c.cmd = "bind_descriptor_sets" -> {c.layout, c.set[1]}
      [] OTHER -> {}

\* the objects a buffer's execution uses: those its commands name, and the texture
\* if a descriptor-set instance it binds has the texture's view written into it
CbRefs(cmds) ==
    UNION {CmdRefs(cmds[k]) : k \in DOMAIN cmds}
      \cup (IF \E s \in CbSets(cmds) : \E b \in Bindings : descriptor_sets[s][b] = "texture"
            THEN {"texture"} ELSE {})

\* the one SubmitInfo2 handed to queue_submit2 on graphics_queue with the signal fence
SubmitOp(wait_semaphores, signal_semaphores) ==
    [kind |-> "submit", frame |-> frames, at |-> current_frame,
     cb |-> CommandList_get_current,
     waits |-> {Semaphore_get_raw(s) : s \in wait_semaphores},
     signals |-> {Semaphore_get_raw(s) : s \in signal_semaphores},
     fence |-> Fence_get_raw, img |-> -1, status |-> "queued", family |-> graphics_queue,
     refs |-> CbRefs(command_buffers[CommandList_get_current].cmds),
     sets |-> CbSets(command_buffers[CommandList_get_current].cmds)]

Renderer_submit(wait_semaphores, signal_semaphores, ok) ==
    /\ cl_alive
    /\ queue' = IF ok THEN Append(queue, SubmitOp(wait_semaphores, signal_semaphores)) ELSE queue
    /\ last' = Call("submit", ok)
    /\ UNCHANGED <<rendererVars, syncVars, clVars, descriptor_sets, ownVars, acquires,
                   frames, cb_at>>

\* variant: a present request with no wait semaphore
PresentOpNoWait(wait_semaphore) ==
    [kind |-> "present", frame |-> frames, at |-> current_frame, cb |-> -1,
     waits |-> {}, signals |-> {},
     fence |-> -1, img |-> swapchain_image_idx, status |-> "queued",
     family |-> graphics_queue, refs |-> {}, sets |-> {}]

\* the PresentInfoKHR handed to queue_present on graphics_queue
PresentOp(wait_semaphore) ==
    [kind |-> "present", frame |-> frames, at |-> current_frame, cb |-> -1,
     waits |-> {Semaphore_get_raw(wait_semaphore)}, signals |-> {},
     fence |-> -1, img |-> swapchain_image_idx, status |-> "queued",
     family |-> graphics_queue, refs |-> {}, sets |-> {}]

\* variant: an index that does not move
NextSlotStuck(f) == (f + FRAME_OVERLAP) % FRAME_OVERLAP

\* variant: an index that is incremented without the modulo
NextSlotNoWrap(f) == f + 1

\* renderer.rs:479, (self.current_frame() + 1) % FRAME_OVERLAP
NextSlot(f) == (f + 1) % FRAME_OVERLAP

\* queue_present(..).unwrap() comes before frame_number.replace(..)
Renderer_present(wait_semaphore, ok) ==
    /\ queue' = IF ok THEN Append(queue, PresentOp(wait_semaphore)) ELSE queue
    /\ frame_number' = IF ok THEN NextSlot(current_frame) ELSE frame_number
    /\ frames' = IF ok THEN frames + 1 ELSE frames
    /\ last' = Call("present", ok)
    /\ UNCHANGED <<swapchain_image_idx, syncVars, clVars, descriptor_sets, ownVars,
                   acquires, cb_at>>

----------------------------------------------------------------------------
\* CommandList (command_list.rs)

\* the native command-buffer lifecycle the reset/begin/end/cmd_* calls drive
CbAfterReset(cb) == [state |-> "initial", cmds |-> <<>>]

CbAfterBegin(cb) ==
    [cb EXCEPT !.state = IF cb.state = "initial" THEN "recording" ELSE "invalid"]

CbAfterEnd(cb) ==
    [cb EXCEPT !.state = IF cb.state = "recording" THEN "executable" ELSE "invalid"]

CbRecord(cb, cs) ==
    [state |-> IF cb.state = "recording" THEN "recording" ELSE "invalid",
     cmds |-> cb.cmds \o cs]

CbPending(s) ==
    \E i \in DOMAIN queue :
        queue[i].kind = "submit" /\ queue[i].cb = s /\ queue[i].status # "done"

\* variant: a reset that also releases the handles retained so far
CommandList_reset_clearing(ok) ==
    LET cur == CommandList_get_current
    IN  /\ cl_alive
        /\ command_buffers' =
              IF ok THEN [command_buffers EXCEPT ![cur] = CbAfterReset(@)] ELSE command_buffers
        /\ owned_resources' = IF ok THEN <<>> ELSE owned_resources
        /\ arc' = IF ok THEN DropAll(arc, owned_resources) ELSE arc
        /\ last' = Call("cl_reset", ok)
        /\ UNCHANGED <<rendererVars, syncVars, cl_alive, bound, descriptor_sets, handles,
                       texture, locals, teardown, gpuVars, frames, cb_at>>

\* command_list.rs:38-41: the native reset of the current slot's buffer, nothing else
CommandList_reset(ok) ==
    LET cur == CommandList_get_current
    IN  /\ cl_alive
        /\ command_buffers' =
              IF ok THEN [command_buffers EXCEPT ![cur] = CbAfterReset(@)] ELSE command_buffers
        /\ last' = Call("cl_reset", ok)
        /\ UNCHANGED <<rendererVars, syncVars, owned_resources, cl_alive, bound,
                       descriptor_sets, ownVars, gpuVars, frames, cb_at>>

CommandList_begin(ok) ==
    LET cur == CommandList_get_current
    IN  /\ cl_alive
        /\ command_buffers' =
              IF ok THEN [command_buffers EXCEPT ![cur] = CbAfterBegin(@)] ELSE command_buffers
        /\ cb_at' = IF ok
                    THEN [n \in DOMAIN cb_at \cup {frames} |->
                             IF n = frames THEN cur ELSE cb_at[n]]
                    ELSE cb_at
        /\ last' = Call("cl_begin", ok)
        /\ UNCHANGED <<rendererVars, syncVars, owned_resources, cl_alive, bound,
                       descriptor_sets, ownVars, gpuVars, frames>>

CommandList_end(ok) ==
    LET cur == CommandList_get_current
    IN  /\ cl_alive
        /\ command_buffers' =
              IF ok THEN [command_buffers EXCEPT ![cur] = CbAfterEnd(@)] ELSE command_buffers
        /\ last' = Call("cl_end", ok)
        /\ UNCHANGED <<rendererVars, syncVars, owned_resources, cl_alive, bound,
                       descriptor_sets, ownVars, gpuVars, frames, cb_at>>

\* variant: every depth-capable attachment layout selects the depth aspect
AspectMaskDepthStencil(new_layout) ==
    IF new_layout \in {"DEPTH_ATTACHMENT_OPTIMAL", "DEPTH_STENCIL_ATTACHMENT_OPTIMAL"}
    THEN "DEPTH" ELSE "COLOR"

\* command_list.rs:61-67
AspectMask(new_layout) ==
    IF new_layout = "DEPTH_ATTACHMENT_OPTIMAL" THEN "DEPTH" ELSE "COLOR"

\* command_list.rs:69-77, the ImageMemoryBarrier2 of transition_image_layout
ImageBarrier(image, old_layout, new_layout) ==
    [cmd |-> "pipeline_barrier2", image |-> image,
     src_stage_mask |-> {"ALL_COMMANDS"}, src_access_mask |-> {"MEMORY_WRITE"},
     dst_stage_mask |-> {"ALL_COMMANDS"},
     dst_access_mask |-> {"MEMORY_WRITE", "MEMORY_READ"},
     old_layout |-> old_layout, new_layout |-> new_layout,
     aspect_mask |-> AspectMask(new_layout)]

\* command_list.rs:92-124, the BlitImageInfo2 of copy_image_to_image
BlitImage(source, dest) ==
    [cmd |-> "blit_image2", src_image |-> source, dst_image |-> dest,
     src_image_layout |-> "TRANSFER_SRC_OPTIMAL",
     dst_image_layout |-> "TRANSFER_DST_OPTIMAL"]

Texture_image == <<"texture", 0>>

\* a call that only records commands into the current slot's buffer
RecordOnly(op, cs) ==
    LET cur == CommandList_get_current
    IN  /\ cl_alive
        /\ command_buffers' = [command_buffers EXCEPT ![cur] = CbRecord(@, cs)]
        /\ last' = Call(op, TRUE)
        /\ UNCHANGED <<rendererVars, syncVars, owned_resources, cl_alive, bound,
                       descriptor_sets, ownVars, gpuVars, frames, cb_at>>

CommandList_transition_texture_layout(old_layout, new_layout) ==
    texture.alive /\ RecordOnly("transition_texture_layout",
               <<ImageBarrier(Texture_image, old_layout, new_layout)>>)

CommandList_dispatch_compute_pipeline(x, y, z) ==
    RecordOnly("dispatch_compute_pipeline", <<[cmd |-> "dispatch", x |-> x, y |-> y, z |-> z]>>)

\* variant: the blit is recorded before the swapchain image is made a transfer
\* destination
CommandList_copy_to_framebuffer_blit_first ==
    LET img == Renderer_get_current_swapchain_img
    IN  texture.alive /\ RecordOnly("copy_to_framebuffer",
          << ImageBarrier(Texture_image, "GENERAL", "TRANSFER_SRC_OPTIMAL"),
             BlitImage(Texture_image, img),
             ImageBarrier(img, "UNDEFINED", "TRANSFER_DST_OPTIMAL"),
             ImageBarrier(img, "TRANSFER_DST_OPTIMAL", "PRESENT_SRC_KHR") >>)

\* command_list.rs:126-131: two barriers, the blit, the barrier to PRESENT_SRC
CommandList_copy_to_framebuffer ==
    LET img == Renderer_get_current_swapchain_img
    IN  texture.alive /\ RecordOnly("copy_to_framebuffer",
          << ImageBarrier(Texture_image, "GENERAL", "TRANSFER_SRC_OPTIMAL"),
             ImageBarrier(img, "UNDEFINED", "TRANSFER_DST_OPTIMAL"),
             BlitImage(Texture_image, img),
             ImageBarrier(img, "TRANSFER_DST_OPTIMAL", "PRESENT_SRC_KHR") >>)

\* the caller hands over an Arc by value: a clone of its handle, or the handle itself
PassHandle(a, hs, o, clone) ==
    IF clone THEN [arc |-> ArcClone(a, o), handles |-> hs]
             ELSE [arc |-> a, handles |-> [hs EXCEPT ![o] = @ - 1]]

\* the callee's side of a by-value Arc parameter after the pushes
Retained(a, pushed, o) == IF pushed.kept THEN a ELSE ArcDrop(a, o)

CommandList_bind_compute_pipeline(pipeline, clone) ==
    LET cur == CommandList_get_current
        given == PassHandle(arc, handles, pipeline, clone)
        pushed == Push(owned_resources, pipeline)
    IN  /\ cl_alive
        /\ handles[pipeline] >= 1
        /\ command_buffers' = [command_buffers EXCEPT ![cur] =
              CbRecord(@, <<[cmd |-> "bind_pipeline", pipeline |-> pipeline]>>)]
        /\ owned_resources' = pushed.vec
        /\ arc' = Retained(given.arc, pushed, pipeline)
        /\ handles' = given.handles
        /\ UNCHANGED <<texture, locals, teardown>>
        /\ bound' = bound \cup {pipeline}
        /\ last' = Call("bind_compute_pipeline", TRUE)
        /\ UNCHANGED <<rendererVars, syncVars, cl_alive, descriptor_sets, gpuVars,
                       frames, cb_at>>

CommandList_bind_descriptor_set(pipeline_layout, descriptor_set, clone_l, clone_s) ==
    LET cur == CommandList_get_current
        given1 == PassHandle(arc, handles, pipeline_layout, clone_l)
        given == PassHandle(given1.arc, given1.handles, descriptor_set, clone_s)
        pushed1 == Push(owned_resources, pipeline_layout)
        pushed == Push(pushed1.vec, descriptor_set)
    IN  /\ cl_alive
        /\ handles[pipeline_layout] >= 1
        /\ handles[descriptor_set] >= 1
        /\ command_buffers' = [command_buffers EXCEPT ![cur] =
              CbRecord(@, <<[cmd |-> "bind_descriptor_sets", layout |-> pipeline_layout,
                             set |-> <<descriptor_set, DescriptorSet_get_current>>]>>)]
        /\ owned_resources' = pushed.vec
        /\ arc' = Retained(Retained(given.arc, pushed1, pipeline_layout),
                           pushed, descriptor_set)
        /\ handles' = given.handles
        /\ UNCHANGED <<texture, locals, teardown>>
        /\ bound' = bound \cup {pipeline_layout, descriptor_set}
        /\ last' = Call("bind_descriptor_set", TRUE)
        /\ UNCHANGED <<rendererVars, syncVars, cl_alive, descriptor_sets, gpuVars,
                       frames, cb_at>>

----------------------------------------------------------------------------
\* DescriptorSet::write_texture (descriptor_set.rs:95-108)

DescriptorSet_write_texture(binding) ==
    LET cur == DescriptorSet_get_current
    IN  /\ handles["descriptor_set"] >= 1
        /\ texture.alive
        /\ descriptor_sets' = [descriptor_sets EXCEPT ![cur][binding] = "texture"]
        /\ last' = Call("write_texture", TRUE)
        /\ UNCHANGED <<rendererVars, syncVars, clVars, ownVars, gpuVars, frames, cb_at>>

----------------------------------------------------------------------------
\* the caller dropping what it owns

DropHandle(o) ==
    /\ handles[o] >= 1
    /\ handles' = [handles EXCEPT ![o] = @ - 1]
    /\ arc' = ArcDrop(arc, o)
    /\ last' = Call("drop_handle", TRUE)
    /\ UNCHANGED <<rendererVars, syncVars, clVars, descriptor_sets, gpuVars, frames, cb_at,
                   texture, locals>>
    /\ RendererRelease

\* CommandList has no Drop impl: its fields are dropped, the Vec front to back
DropCommandList ==
    /\ cl_alive
    /\ cl_alive' = FALSE
    /\ arc' = DropAll(arc, owned_resources)
    /\ owned_resources' = <<>>
    /\ last' = Call("drop_command_list", TRUE)
    /\ UNCHANGED <<rendererVars, syncVars, command_buffers, bound, descriptor_sets,
                   handles, gpuVars, frames, cb_at, texture, locals>>
    /\ RendererRelease

\* the caller drops the Texture it owns by value
DropTexture ==
    /\ texture.alive
    /\ texture' = Texture_drop(texture)
    /\ last' = Call("drop_texture", TRUE)
    /\ UNCHANGED <<rendererVars, syncVars, clVars, descriptor_sets, arc, handles, locals,
                   gpuVars, frames, cb_at>>
    /\ RendererRelease

\* the caller drops its Arc<Renderer> handle, the Fence or a Semaphore wrapper
DropLocal(l) ==
    /\ l \in locals
    /\ locals' = locals \ {l}
    /\ last' = Call("drop_local", TRUE)
    /\ UNCHANGED <<rendererVars, syncVars, clVars, descriptor_sets, arc, handles, texture,
                   gpuVars, frames, cb_at>>
    /\ RendererRelease

\* Drop for Renderer once device_wait_idle has returned (the queue is idle): the
\* rest of the drop body, then the drop of the fields
Renderer_drop ==
    /\ teardown = <<Renderer_drop_body[1]>>
    /\ \A i \in DOMAIN queue : queue[i].status = "done"
    /\ teardown' = Renderer_drop_body \o Renderer_field_drops
    /\ last' = Call("renderer_drop", TRUE)
    /\ UNCHANGED <<rendererVars, syncVars, clVars, descriptor_sets, arc, handles, texture,
                   locals, gpuVars, frames, cb_at>>

----------------------------------------------------------------------------
\* The environment: the presentation engine and the GPU working off graphics_queue.
\* Submissions start in submission order, each once the semaphores it waits on are
\* signaled, and a started submission finishes at any later time. Present requests
\* are handed to the presentation engine, which processes them in the order they
\* were issued, each at any time once its wait semaphore is signaled: no fence or
\* other signal tells the application when that wait has been consumed.

cpuVars == <<rendererVars, fences, clVars, descriptor_sets, ownVars,
             pc, frames, n_calls, calls, cb_at, last, devVars>>

Signaled(ws) == \A w \in ws : semaphores[w]

CanStart(i) ==
    /\ queue[i].status = "queued"
    /\ \A j \in 1 .. (i - 1) : queue[j].kind = queue[i].kind => queue[j].status # "queued"
    /\ Signaled(queue[i].waits)

\* the acquired image becomes available: the acquire's semaphore is signaled
GpuAcquire(i) ==
    /\ ~acquires[i].done
    /\ acquires' = [acquires EXCEPT ![i].done = TRUE]
    /\ semaphores' = [semaphores EXCEPT ![acquires[i].sem] = TRUE]
    /\ UNCHANGED <<cpuVars, queue>>

\* a submission starts executing: its semaphore waits are consumed
GpuBegin(i) ==
    /\ queue[i].kind = "submit"
    /\ CanStart(i)
    /\ queue' = [queue EXCEPT ![i].status = "running"]
    /\ semaphores' = [n \in DOMAIN semaphores |->
                        IF n \in queue[i].waits THEN FALSE ELSE semaphores[n]]
    /\ UNCHANGED <<cpuVars, acquires>>

\* a submission completes: its semaphores and its fence are signaled
GpuFinish(i) ==
    /\ queue[i].kind = "submit"
    /\ queue[i].status = "running"
    /\ queue' = [queue EXCEPT ![i].status = "done"]
    /\ semaphores' = [n \in DOMAIN semaphores |->
                        IF n \in queue[i].signals THEN TRUE ELSE semaphores[n]]
    /\ fences' = [fences EXCEPT ![queue[i].fence] = TRUE]
    /\ UNCHANGED <<rendererVars, clVars, descriptor_sets, ownVars, acquires,
                   pc, frames, n_calls, calls, cb_at, last, devVars>>

\* a present request is processed: its wait is consumed and the image is shown
GpuPresent(i) ==
    /\ queue[i].kind = "present"
    /\ CanStart(i)
    /\ queue' = [queue EXCEPT ![i].status = "done"]
    /\ semaphores' = [n \in DOMAIN semaphores |->
                        IF n \in queue[i].waits THEN FALSE ELSE semaphores[n]]
    /\ UNCHANGED <<cpuVars, acquires>>

Gpu ==
    \/ \E i \in DOMAIN acquires : GpuAcquire(i)
    \/ \E i \in DOMAIN queue : GpuBegin(i)
    \/ \E i \in DOMAIN queue : GpuFinish(i)
    \/ \E i \in DOMAIN queue : GpuPresent(i)

----------------------------------------------------------------------------
\* main's loop (main.rs:97-119): one statement per step, a panic ends it

\* variant: a loop that never resets the command buffer
MainOrderNoReset ==
    << "fence_wait", "fence_reset", "start_frame", "write_texture",
       "cl_begin", "transition_texture_layout", "bind_compute_pipeline",
       "bind_descriptor_set", "dispatch_compute_pipeline", "copy_to_framebuffer",
       "cl_end", "submit", "present" >>

\* variant: the descriptor write comes before the wait on the slot's fence
MainOrderWriteFirst ==
    << "write_texture", "fence_wait", "fence_reset", "start_frame", "cl_reset",
       "cl_begin", "transition_texture_layout", "bind_compute_pipeline",
       "bind_descriptor_set", "dispatch_compute_pipeline", "copy_to_framebuffer",
       "cl_end", "submit", "present" >>

MainOrder ==
    << "fence_wait", "fence_reset", "start_frame", "write_texture", "cl_reset",
       "cl_begin", "transition_texture_layout", "bind_compute_pipeline",
       "bind_descriptor_set", "dispatch_compute_pipeline", "copy_to_framebuffer",
       "cl_end", "submit", "present" >>

\* variant: a loop body that goes from the fence wait straight to start_frame
NextStmtSkipReset(stmt) ==
    LET i == CHOOSE k \in DOMAIN MainOrder : MainOrder[k] = stmt
        n == MainOrder[(i % Len(MainOrder)) + 1]
    IN  IF n = "fence_reset" THEN "start_frame" ELSE n

\* the statement after stmt in the loop body, the first one after the last
NextStmt(stmt) ==
    LET i == CHOOSE k \in DOMAIN MainOrder : MainOrder[k] = stmt
    IN  MainOrder[(i % Len(MainOrder)) + 1]

\* variant: a statement whose native call failed is executed again
MainRetry(stmt, A) ==
    /\ pc = stmt
    /\ A
    /\ pc' = IF last'.ok THEN NextStmt(stmt) ELSE stmt
    /\ calls' = IF stmt = MainOrder[1] THEN <<stmt>> ELSE Append(calls, stmt)
    /\ UNCHANGED <<n_calls, devVars>>

\* every native failure is an unwrap() panic, which leaves the loop (and main)
Main(stmt, A) ==
    /\ pc = stmt
    /\ A
    /\ pc' = IF last'.ok THEN NextStmt(stmt) ELSE "panicked"
    /\ calls' = IF stmt = MainOrder[1] THEN <<stmt>> ELSE Append(calls, stmt)
    /\ UNCHANGED <<n_calls, devVars>>

MainFenceWait(ok) == frames < MaxFrames /\ Main("fence_wait", Fence_wait(ok))

MainFenceReset(ok) == Main("fence_reset", Fence_reset(ok))

MainStartFrame(ok) ==
    \E idx \in 0 .. (NumImages - 1) :
        Main("start_frame", Renderer_start_frame("swapchain_semaphore", idx, ok))

MainWriteTexture == Main("write_texture", DescriptorSet_write_texture(0))

MainReset(ok) == Main("cl_reset", CommandList_reset(ok))

MainBegin(ok) == Main("cl_begin", CommandList_begin(ok))

MainTransition ==
    Main("transition_texture_layout",
         CommandList_transition_texture_layout("UNDEFINED", "GENERAL"))

MainBindPipeline ==
    Main("bind_compute_pipeline", CommandList_bind_compute_pipeline("pipeline", TRUE))

MainBindDescriptorSet ==
    Main("bind_descriptor_set",
         CommandList_bind_descriptor_set("pipeline_layout", "descriptor_set", TRUE, TRUE))

MainDispatch ==
    Main("dispatch_compute_pipeline",
         CommandList_dispatch_compute_pipeline(800 \div 16, 600 \div 16, 1))

MainCopyToFramebuffer == Main("copy_to_framebuffer", CommandList_copy_to_framebuffer)

MainEnd(ok) == Main("cl_end", CommandList_end(ok))

MainSubmit(ok) ==
    Main("submit", Renderer_submit({"swapchain_semaphore"}, {"render_semaphore"}, ok))

MainPresent(ok) == Main("present", Renderer_present("render_semaphore", ok))

Cpu(ok) ==
    \/ MainFenceWait(ok)
    \/ MainFenceReset(ok)
    \/ MainStartFrame(ok)
    \/ MainWriteTexture
    \/ MainReset(ok)
    \/ MainBegin(ok)
    \/ MainTransition
    \/ MainBindPipeline
    \/ MainBindDescriptorSet
    \/ MainDispatch
    \/ MainCopyToFramebuffer
    \/ MainEnd(ok)
    \/ MainSubmit(ok)
    \/ MainPresent(ok)

Next ==
    \/ \E ok \in BOOLEAN : MainFenceWait(ok)
    \/ \E ok \in BOOLEAN : MainFenceReset(ok)
    \/ \E ok \in BOOLEAN : MainStartFrame(ok)
    \/ MainWriteTexture
    \/ \E ok \in BOOLEAN : MainReset(ok)
    \/ \E ok \in BOOLEAN : MainBegin(ok)
    \/ MainTransition
    \/ MainBindPipeline
    \/ MainBindDescriptorSet
    \/ MainDispatch
    \/ MainCopyToFramebuffer
    \/ \E ok \in BOOLEAN : MainEnd(ok)
    \/ \E ok \in BOOLEAN : MainSubmit(ok)
    \/ \E ok \in BOOLEAN : MainPresent(ok)
    \/ Gpu

Spec == Init /\ [][Next]_vars

----------------------------------------------------------------------------
\* A free call sequence: any caller of the API, any arguments, any order

Api(A) ==
    /\ pc = "api"
    /\ n_calls < MaxCalls
    /\ A
    /\ n_calls' = n_calls + 1
    /\ pc' = IF last'.ok THEN "api" ELSE "panicked"
    /\ UNCHANGED <<calls, devVars>>

CanRecord == Len(command_buffers[CommandList_get_current].cmds) < MaxCmds

ApiFenceWait == \E ok \in BOOLEAN : Api(Fence_wait(ok))

ApiFenceReset == \E ok \in BOOLEAN : Api(Fence_reset(ok))

ApiStartFrame ==
    \E sem \in SemObjs, idx \in 0 .. (NumImages - 1), ok \in BOOLEAN :
        Api(Renderer_start_frame(sem, idx, ok))

\* the semaphore slices a caller passes to submit: empty or one wrapper
SemArgs == {S \in SUBSET SemObjs : Cardinality(S) <= 1}

ApiSubmit ==
    \E ws \in SemArgs, ss \in SemArgs, ok \in BOOLEAN :
        Api(Renderer_submit(ws, ss, ok))

ApiPresent == \E sem \in SemObjs, ok \in BOOLEAN : Api(Renderer_present(sem, ok))

ApiReset == \E ok \in BOOLEAN : Api(CommandList_reset(ok))

ApiBegin == \E ok \in BOOLEAN : Api(CommandList_begin(ok))

ApiEnd == \E ok \in BOOLEAN : Api(CommandList_end(ok))

ApiTransition ==
    CanRecord /\ Api(CommandList_transition_texture_layout("UNDEFINED", "GENERAL"))

ApiBindPipeline ==
    CanRecord /\ Api(CommandList_bind_compute_pipeline("pipeline", TRUE))

ApiBindDescriptorSet ==
    CanRecord /\ Api(CommandList_bind_descriptor_set("pipeline_layout", "descriptor_set",
                                                      TRUE, TRUE))

ApiDispatch ==
    CanRecord /\ Api(CommandList_dispatch_compute_pipeline(800 \div 16, 600 \div 16, 1))

ApiCopyToFramebuffer == CanRecord /\ Api(CommandList_copy_to_framebuffer)

ApiWriteTexture == \E binding \in Bindings : Api(DescriptorSet_write_texture(binding))

ApiNext ==
    \/ ApiFenceWait
    \/ ApiFenceReset
    \/ ApiStartFrame
    \/ ApiSubmit
    \/ ApiPresent
    \/ ApiReset
    \/ ApiBegin
    \/ ApiEnd
    \/ ApiTransition
    \/ ApiBindPipeline
    \/ ApiBindDescriptorSet
    \/ ApiDispatch
    \/ ApiCopyToFramebuffer
    \/ ApiWriteTexture
    \/ Gpu

ApiSpec == InitApi /\ [][ApiNext]_vars

----------------------------------------------------------------------------
\* A free bind/drop sequence: the caller binds with cloned or moved handles, drops
\* its handles and the CommandList in any order, between other CommandList calls

Own(A) == pc = "api" /\ A /\ UNCHANGED <<pc, n_calls, calls, devVars>>

OwnBindPipeline ==
    \E clone \in BOOLEAN :
        /\ Len(owned_resources) + 1 <= MaxOwned
        /\ Own(CommandList_bind_compute_pipeline("pipeline", clone))

OwnBindDescriptorSet ==
    \E clone_l \in BOOLEAN, clone_s \in BOOLEAN :
        /\ Len(owned_resources) + 2 <= MaxOwned
        /\ Own(CommandList_bind_descriptor_set("pipeline_layout", "descriptor_set",
                                               clone_l, clone_s))

OwnDropHandle == \E o \in Objs : Own(DropHandle(o))

OwnDropCommandList == Own(DropCommandList)

OwnNext ==
    \/ OwnBindPipeline
    \/ OwnBindDescriptorSet
    \/ OwnDropHandle
    \/ OwnDropCommandList
    \/ ApiReset
    \/ ApiPresent

OwnSpec == InitApi /\ [][OwnNext]_vars

----------------------------------------------------------------------------
\* A record/submit/drop sequence: a caller that follows the command-buffer
\* lifecycle (begin, record, end, submit) and drops what it owns at any point,
\* while the GPU works off what was submitted

Use(A) ==
    /\ pc = "api"
    /\ n_calls < MaxUseCalls
    /\ A
    /\ n_calls' = n_calls + 1
    /\ UNCHANGED <<pc, calls, devVars>>

CbState == command_buffers[CommandList_get_current].state

UseBegin ==
    /\ CbState = "initial"
    /\ ~CbPending(CommandList_get_current)
    /\ Use(CommandList_begin(TRUE))

UseBindPipeline ==
    \E clone \in BOOLEAN :
        /\ CbState = "recording"
        /\ CanRecord
        /\ Use(CommandList_bind_compute_pipeline("pipeline", clone))

UseBindDescriptorSet ==
    \E clone_l \in BOOLEAN, clone_s \in BOOLEAN :
        /\ CbState = "recording"
        /\ CanRecord
        /\ Use(CommandList_bind_descriptor_set("pipeline_layout", "descriptor_set",
                                                clone_l, clone_s))

UseCopyToFramebuffer ==
    /\ CbState = "recording"
    /\ CanRecord
    /\ Use(CommandList_copy_to_framebuffer)

UseWriteTexture == \E binding \in Bindings : Use(DescriptorSet_write_texture(binding))

UseEnd == CbState = "recording" /\ Use(CommandList_end(TRUE))

UseSubmit ==
    /\ CbState = "executable"
    /\ ~CbPending(CommandList_get_current)
    /\ Use(Renderer_submit({}, {}, TRUE))

UseFenceReset == Use(Fence_reset(TRUE))

UseFenceWait == Use(Fence_wait(TRUE))

UseDropHandle == \E o \in Objs : Own(DropHandle(o))

UseDropTexture == Own(DropTexture)

UseDropCommandList == Own(DropCommandList)

UseNext ==
    \/ UseBegin
    \/ UseBindPipeline
    \/ UseBindDescriptorSet
    \/ UseCopyToFramebuffer
    \/ UseWriteTexture
    \/ UseEnd
    \/ UseSubmit
    \/ UseFenceReset
    \/ UseFenceWait
    \/ UseDropHandle
    \/ UseDropTexture
    \/ UseDropCommandList
    \/ \E i \in DOMAIN queue : GpuBegin(i)
    \/ \E i \in DOMAIN queue : GpuFinish(i)

UseSpec == InitApi /\ [][UseNext]_vars

----------------------------------------------------------------------------
\* Descriptor writes: write_texture with any binding, between presents that move
\* the slot

WriteNext ==
    \/ ApiWriteTexture
    \/ ApiPresent
    \/ ApiBindDescriptorSet

WriteSpec == InitApi /\ [][WriteNext]_vars

----------------------------------------------------------------------------
\* The retained list: binds mixed with the calls that reset, record and submit

RetainNext ==
    \/ ApiBindPipeline
    \/ ApiBindDescriptorSet
    \/ ApiReset
    \/ ApiBegin
    \/ ApiEnd
    \/ ApiSubmit
    \/ ApiPresent

RetainSpec == InitApi /\ [][RetainNext]_vars

----------------------------------------------------------------------------
\* Barrier recording: transition_texture_layout with any pair of layouts, and the
\* composite copy_to_framebuffer, into the current slot's buffer

BarrierTransition ==
    \E old_layout \in Layouts, new_layout \in Layouts :
        /\ CanRecord
        /\ Api(CommandList_transition_texture_layout(old_layout, new_layout))

BarrierNext ==
    \/ ApiBegin
    \/ BarrierTransition
    \/ ApiCopyToFramebuffer
    \/ ApiReset

BarrierSpec == InitApi /\ [][BarrierNext]_vars

----------------------------------------------------------------------------
\* A release sequence: the caller binds, then drops everything it owns, in any
\* order; the release of the last Arc<Renderer> runs Renderer's drop.
\* A teardown (DropSpec) is the same with work submitted to the GPU before.

DropBindPipeline ==
    \E clone \in BOOLEAN :
        /\ Len(owned_resources) + 1 <= MaxDropOwned
        /\ Own(CommandList_bind_compute_pipeline("pipeline", clone))

DropBindDescriptorSet ==
    \E clone_l \in BOOLEAN, clone_s \in BOOLEAN :
        /\ Len(owned_resources) + 2 <= MaxDropOwned
        /\ Own(CommandList_bind_descriptor_set("pipeline_layout", "descriptor_set",
                                               clone_l, clone_s))

DropSubmit ==
    /\ Len(queue) < MaxSubmits
    /\ {"renderer", "render_fence"} \subseteq locals
    /\ Own(Renderer_submit({}, {}, TRUE))

DropSpecDropTexture == Own(DropTexture)

DropSpecDropLocal == \E l \in RendererOwners : Own(DropLocal(l))

DropSpecRendererDrop == Own(Renderer_drop)

ReleaseNext ==
    \/ DropBindPipeline
    \/ DropBindDescriptorSet
    \/ OwnDropHandle
    \/ OwnDropCommandList
    \/ DropSpecDropTexture
    \/ DropSpecDropLocal
    \/ DropSpecRendererDrop

ReleaseSpec == InitApi /\ [][ReleaseNext]_vars

DropNext ==
    \/ DropBindPipeline
    \/ DropBindDescriptorSet
    \/ DropSubmit
    \/ OwnDropHandle
    \/ OwnDropCommandList
    \/ DropSpecDropTexture
    \/ DropSpecDropLocal
    \/ DropSpecRendererDrop
    \/ \E i \in DOMAIN queue : GpuBegin(i)
    \/ \E i \in DOMAIN queue : GpuFinish(i)

DropSpec == InitApi /\ [][DropNext]_vars

----------------------------------------------------------------------------
\* Renderer::new from device selection on, for every device, followed by submits
\* and presents; what main creates after the Renderer is in its created state

SelectInit ==
    /\ InitObjects
    /\ props \in FamilyLists
    /\ graphics_queue = -1
    /\ present_queue = -1
    /\ pc = "select_physical_device"

SelectNext ==
    \/ \E ok \in BOOLEAN : Renderer_select_physical_device(ok)
    \/ \E ok \in BOOLEAN : Renderer_create_device(ok)
    \/ ApiSubmit
    \/ ApiPresent

SelectSpec == SelectInit /\ [][SelectNext]_vars

----------------------------------------------------------------------------
\* The frame loop when no native call fails and both the CPU thread and the GPU
\* keep running

LiveCpu == frames < MaxLiveFrames /\ Cpu(TRUE)

LiveNext == LiveCpu \/ Gpu

LiveSpec == Init /\ [][LiveNext]_vars /\ WF_vars(LiveCpu) /\ WF_vars(Gpu)

----------------------------------------------------------------------------
\* Properties

\* C1: from a fresh Renderer (slot index 0), every present() that returns moves the
\* slot index from the value i it saw to (i + 1) mod FRAME_OVERLAP, so after N
\* presents the index is N mod FRAME_OVERLAP, whatever start_frame calls (and any
\* other calls) come in between.
C1_SlotRotation ==
    /\ frame_number = frames % FRAME_OVERLAP
    /\ (last.op = "present" /\ last.ok) => frame_number = (last.slot + 1) % FRAME_OVERLAP

\* two presents with a start_frame in between: the index is back at 0
C1_Witness ==
    /\ frames = FRAME_OVERLAP
    /\ frame_number = 0
    /\ Len(acquires) >= 1
    /\ acquires[Len(acquires)].frame = 1

\* C4 as claimed: a present() whose native present request fails has still advanced
\* the slot index by one.
C4_AdvancesAlsoOnFailure ==
    (last.op = "present" /\ ~last.ok) => frame_number = (last.slot + 1) % FRAME_OVERLAP

\* the calls of the current iteration that the slot-reuse protocol orders
IsSyncCall(c) == c \in {"fence_wait", "fence_reset", "cl_reset", "cl_begin"}

IsPrefix(a, b) == Len(a) <= Len(b) /\ a = SubSeq(b, 1, Len(a))

\* C2: in the frame loop, for every frame n >= FRAME_OVERLAP the command buffer that
\* begin() starts recording is the one of frame n - FRAME_OVERLAP and not the one of
\* frame n - 1; the submission of frame n - FRAME_OVERLAP used that buffer and that
\* slot's fence and has completed (the fence has signaled) by the time frame n
\* records; and in each iteration the calls come in the order fence.wait(),
\* fence.reset(), command_list.reset(), command_list.begin().
C2_SlotBounding ==
    /\ \A n \in DOMAIN cb_at :
          n >= FRAME_OVERLAP =>
             /\ cb_at[n] = cb_at[n - FRAME_OVERLAP]
             /\ cb_at[n] # cb_at[n - 1]
             /\ \E i \in DOMAIN queue :
                   /\ queue[i].kind = "submit"
                   /\ queue[i].frame = n - FRAME_OVERLAP
                   /\ queue[i].cb = cb_at[n]
                   /\ queue[i].fence = cb_at[n]
                   /\ queue[i].status = "done"
    /\ IsPrefix(SelectSeq(calls, IsSyncCall),
                <<"fence_wait", "fence_reset", "cl_reset", "cl_begin">>)

\* frame FRAME_OVERLAP + 1 has begun recording, after all four ordered calls: both
\* slots have been reused
C2_Witness ==
    /\ (FRAME_OVERLAP + 1) \in DOMAIN cb_at
    /\ frames = FRAME_OVERLAP + 1
    /\ SelectSeq(calls, IsSyncCall) = <<"fence_wait", "fence_reset", "cl_reset", "cl_begin">>

\* main's statements that reset, begin, record into or end the current command buffer
RecordingStmts ==
    {"cl_reset", "cl_begin", "transition_texture_layout", "bind_compute_pipeline",
     "bind_descriptor_set", "dispatch_compute_pipeline", "copy_to_framebuffer", "cl_end"}

\* C3: in the frame loop, whatever the GPU's timing, whenever main is about to apply
\* reset(), begin(), a recording command or end() to the current slot's command
\* buffer, no submission of that buffer is still pending on the GPU.
C3_NoRecordingRace ==
    pc \in RecordingStmts => ~CbPending(CommandList_get_current)

\* main records into one slot's buffer while the GPU still runs the other slot's
C3_Witness ==
    /\ pc = "cl_begin"
    /\ frames >= FRAME_OVERLAP
    /\ \E s \in Slots : s # CommandList_get_current /\ CbPending(s)

Unfinished == {i \in DOMAIN queue : queue[i].kind = "submit" /\ queue[i].status # "done"}

\* C6: in the frame loop, once fence.wait() of frame n has returned, every submission
\* of a frame <= n - FRAME_OVERLAP has completed; at most FRAME_OVERLAP submissions
\* are unfinished at any time, and at most FRAME_OVERLAP - 1 while main records.
C6_BoundedOverlap ==
    /\ Cardinality(Unfinished) <= FRAME_OVERLAP
    /\ pc \in {MainOrder[k] : k \in 2 .. Len(MainOrder)} =>
          \A i \in Unfinished : queue[i].frame > frames - FRAME_OVERLAP
    /\ pc \in RecordingStmts => Cardinality(Unfinished) <= FRAME_OVERLAP - 1

\* main has run FRAME_OVERLAP frames ahead: that many submissions are unfinished
C6_Witness ==
    /\ Cardinality(Unfinished) = FRAME_OVERLAP
    /\ frames >= FRAME_OVERLAP + 1

\* C5: present() is the only operation that changes the frame-slot index (no step of
\* start_frame, submit, Fence.wait/reset, a CommandList operation, write_texture or
\* the GPU changes it), and the index is in [0, FRAME_OVERLAP) in every reachable
\* state, so every per-slot array is indexed in bounds.
C5_OnlyPresentMovesSlot ==
    /\ [](frame_number \in Slots /\ DOMAIN fences = Slots /\ DOMAIN command_buffers = Slots
          /\ DOMAIN descriptor_sets = Slots)
    /\ [][frame_number' # frame_number =>
             (last'.op = "present" /\ last'.ok /\ frames' = frames + 1)]_vars

\* a full budget of calls, the last of them not a present, has left the index at 1
C5_Witness ==
    /\ n_calls = MaxCalls
    /\ frames = 1
    /\ frame_number = 1
    /\ last.op \in {"submit", "write_texture", "start_frame", "cl_begin"}

\* C7: every per-slot fence is created signaled, and in the frame loop, when no
\* native call fails and the GPU completes what it is handed, every fence.wait()
\* returns (also the first wait on each slot, which has no earlier submission) and
\* every frame is followed by the next.
C7_LoopProgress ==
    /\ \A s \in Slots : fences[s]
    /\ (pc = "fence_wait" /\ frames < MaxLiveFrames) ~> (pc = "fence_reset")
    /\ <>(frames = MaxLiveFrames /\ pc = "fence_wait")

\* the first wait on the last slot has returned: nothing was ever submitted with it
C7_Witness ==
    /\ pc = "fence_reset"
    /\ frames = FRAME_OVERLAP - 1
    /\ \A i \in DOMAIN queue : queue[i].fence # Fence_get_raw

\* C8: a submit() that returns has handed the queue exactly one submission, and in
\* every submission the command buffer, each wait semaphore, each signal semaphore
\* and the fence are the native objects of the slot that was current at the call.
C8_SubmitUsesCurrentSlot ==
    /\ \A i \in DOMAIN queue :
          queue[i].kind = "submit" =>
             /\ queue[i].cb = queue[i].at
             /\ queue[i].fence = queue[i].at
             /\ \A w \in queue[i].waits \cup queue[i].signals : w[2] = queue[i].at
    /\ (last.op = "submit" /\ last.ok) =>
          /\ Len(queue) = last.qlen + 1
          /\ queue[Len(queue)].kind = "submit"
          /\ queue[Len(queue)].at = last.slot
    /\ (last.op = "submit" /\ ~last.ok) => Len(queue) = last.qlen

\* submissions made in both slots, each with wait and signal semaphores
C8_Witness ==
    \A s \in Slots :
        \E i \in DOMAIN queue :
            /\ queue[i].kind = "submit"
            /\ queue[i].at = s
            /\ queue[i].waits # {}
            /\ queue[i].signals # {}

\* C9: in every frame of the loop, start_frame's acquire signals the swapchain
\* semaphore of slot f, the frame's submission waits on exactly that semaphore and
\* signals the render semaphore of slot f, and the frame's present waits on exactly
\* that render semaphore; the submission does not start before the frame's image is
\* acquired, and the image is not presented before the submission has finished.
C9_SemaphoreOrder ==
    \A i \in DOMAIN queue :
        /\ queue[i].kind = "submit" =>
              \E a \in DOMAIN acquires :
                  /\ acquires[a].frame = queue[i].frame
                  /\ acquires[a].sem = <<"swapchain_semaphore", queue[i].at>>
                  /\ queue[i].waits = {acquires[a].sem}
                  /\ queue[i].signals = {<<"render_semaphore", queue[i].at>>}
                  /\ queue[i].status # "queued" => acquires[a].done
        /\ queue[i].kind = "present" =>
              \E j \in DOMAIN queue :
                  /\ queue[j].kind = "submit"
                  /\ queue[j].frame = queue[i].frame
                  /\ queue[i].waits = queue[j].signals
                  /\ queue[i].status = "done" => queue[j].status = "done"

\* a frame that reuses slot 0's semaphores has been acquired, rendered and presented
C9_Witness ==
    \E i \in DOMAIN queue :
        /\ queue[i].kind = "present"
        /\ queue[i].frame = FRAME_OVERLAP
        /\ queue[i].status = "done"

\* C10: while the CommandList instance exists, every object bound into it with
\* bind_compute_pipeline or bind_descriptor_set has a strong count of at least 1 and
\* no native destroy issued, whatever handles the caller has dropped; such an object
\* is destroyed only in states where the CommandList has been dropped.
C10_BoundObjectsStayAlive ==
    \A o \in bound :
        /\ cl_alive => (arc[o].strong >= 1 /\ arc[o].destroyed = 0)
        /\ arc[o].destroyed > 0 => ~cl_alive

\* pipeline, layout and set are bound and the caller holds no handle to any of them
C10_Witness ==
    /\ cl_alive
    /\ bound = {"pipeline", "pipeline_layout", "descriptor_set"}
    /\ \A o \in bound : handles[o] = 0 /\ arc[o].destroyed = 0

\* a submission that has not completed and the objects its command buffer uses
PendingRefs ==
    UNION {queue[i].refs : i \in {j \in DOMAIN queue :
                                     queue[j].kind = "submit" /\ queue[j].status # "done"}}

\* the object's native handle has been destroyed or freed
Destroyed(r) ==
    IF r = "texture" THEN texture.views_destroyed + texture.images_freed > 0
                     ELSE arc[r].destroyed > 0

\* C11 as claimed: whatever the caller calls and drops, no texture, descriptor set,
\* pipeline or pipeline layout is destroyed while a submitted command buffer that
\* uses it is still pending on the GPU.
C11_NoDestroyWhilePending ==
    \A r \in PendingRefs : ~Destroyed(r)

\* C12: whatever handles the caller drops and in whatever order, and whatever the
\* CommandList retains, the Shader and the PipelineLayout a ComputePipeline was built
\* from are not destroyed, and keep a strong count of at least 1, for as long as the
\* ComputePipeline has not been destroyed.
C12_PipelineKeepsShaderAndLayout ==
    arc["pipeline"].destroyed = 0 =>
        \A o \in {"shader", "pipeline_layout"} : arc[o].destroyed = 0 /\ arc[o].strong >= 1

\* the caller has dropped its shader and layout handles and the CommandList holds
\* neither: only the live pipeline keeps them
C12_Witness ==
    /\ arc["pipeline"].destroyed = 0
    /\ handles["shader"] = 0 /\ handles["pipeline_layout"] = 0
    /\ arc["shader"].strong = 1 /\ arc["pipeline_layout"].strong = 1
    /\ arc["shader"].destroyed = 0 /\ arc["pipeline_layout"].destroyed = 0

\* the shared references to o that exist: the caller's handles, the handles the
\* CommandList retains, and the fields of live objects
StrongHeld(o) ==
    handles[o]
      + Cardinality({i \in DOMAIN owned_resources : owned_resources[i] = o})
      + Cardinality({p \in Holders(o) : arc[p].destroyed = 0})

\* C13: every Arc-shared wrapper's strong count is the number of shared references
\* that exist, its native destroy has been issued exactly once if that number is 0
\* and not at all otherwise; the Texture's image view and its image (with the
\* allocation) have each been released exactly once if the Texture has been dropped
\* and not at all otherwise.
C13_DestroyedOnceAtLastRelease ==
    /\ \A o \in Objs :
          /\ arc[o].strong = StrongHeld(o)
          /\ arc[o].destroyed = IF StrongHeld(o) = 0 THEN 1 ELSE 0
    /\ texture.views_destroyed = (IF texture.alive THEN 0 ELSE 1)
    /\ texture.images_freed = (IF texture.alive THEN 0 ELSE 1)

\* everything has been released, the CommandList having retained handles: each
\* wrapper and the Texture destroyed once
C13_Witness ==
    /\ \A o \in Objs : arc[o].destroyed = 1
    /\ ~texture.alive
    /\ ~cl_alive
    /\ {"pipeline_layout", "descriptor_set"} \subseteq bound
    /\ Len(teardown) > 1

\* C14: a write_texture(binding, texture) call leaves the binding state of every
\* descriptor-set instance other than the current slot's unchanged, and in the
\* current slot's instance it changes the given binding only, for every binding
\* index and both slots.
C14_WriteTextureIsolation ==
    [][(n_calls' # n_calls /\ last'.op = "write_texture") =>
          /\ \A s \in Slots \ {frame_number} : descriptor_sets'[s] = descriptor_sets[s]
          /\ \E b \in Bindings :
                descriptor_sets'[frame_number] =
                    [descriptor_sets[frame_number] EXCEPT ![b] = "texture"]]_vars

\* slot 1 was current at a write: its instance is written, slot 0's is untouched
C14_Witness ==
    /\ last.op = "write_texture"
    /\ last.slot = 1
    /\ \E b \in Bindings : descriptor_sets[1][b] = "texture"
    /\ \A b \in Bindings : descriptor_sets[0][b] = "none"

\* the submissions that have not completed and bind descriptor-set instance s
PendingReaders(s) ==
    {i \in DOMAIN queue : queue[i].kind = "submit" /\ queue[i].status # "done"
                            /\ s \in queue[i].sets}

\* C15: in the frame loop, when main is about to call write_texture for frame n, the
\* instance it will write is the one of slot n mod FRAME_OVERLAP and no submission
\* that binds that instance is still pending on the GPU.
C15_WriteNeverRacesGpu ==
    pc = "write_texture" =>
        /\ DescriptorSet_get_current = frames % FRAME_OVERLAP
        /\ PendingReaders(DescriptorSet_get_current) = {}

\* main writes one slot's instance while the GPU still reads the other slot's
C15_Witness ==
    /\ pc = "write_texture"
    /\ frames >= FRAME_OVERLAP
    /\ \E s \in Slots : s # DescriptorSet_get_current /\ PendingReaders(s) # {}

\* the barriers recorded in the command buffers
Barriers ==
    UNION {{command_buffers[s].cmds[k] :
              k \in {j \in DOMAIN command_buffers[s].cmds :
                        command_buffers[s].cmds[j].cmd = "pipeline_barrier2"}} : s \in Slots}

\* C16: every barrier transition_image_layout builds has the DEPTH aspect mask if
\* its new layout is DEPTH_ATTACHMENT_OPTIMAL and the COLOR aspect mask for every
\* other new layout, whatever its old layout.
C16_AspectSelection ==
    \A b \in Barriers :
        b.aspect_mask = IF b.new_layout = "DEPTH_ATTACHMENT_OPTIMAL" THEN "DEPTH" ELSE "COLOR"

\* a transition from a depth layout to a colour target and one to the depth target
\* have been recorded (in one buffer, or one after a reset of the other)
C16_Witness ==
    /\ last.op = "transition_texture_layout"
    /\ \E b \in Barriers :
          \/ b.old_layout = "UNDEFINED" /\ b.new_layout = "DEPTH_ATTACHMENT_OPTIMAL"
                /\ b.aspect_mask = "DEPTH"
          \/ b.old_layout = "DEPTH_ATTACHMENT_OPTIMAL"
                /\ b.new_layout = "DEPTH_STENCIL_ATTACHMENT_OPTIMAL" /\ b.aspect_mask = "COLOR"

\* C17 as claimed: every barrier transition_image_layout builds has ALL_COMMANDS as
\* source and as destination stage mask and memory read plus memory write as source
\* and as destination access mask.
C17_FullBarrierMasks ==
    \A b \in Barriers :
        /\ b.src_stage_mask = {"ALL_COMMANDS"}
        /\ b.dst_stage_mask = {"ALL_COMMANDS"}
        /\ b.src_access_mask = {"MEMORY_READ", "MEMORY_WRITE"}
        /\ b.dst_access_mask = {"MEMORY_READ", "MEMORY_WRITE"}

\* C18 as claimed: when the acquire of start_frame or the wait of Fence.wait fails,
\* the call returns to its caller (which goes on running) and leaves the stored
\* swapchain image index and the slot index unchanged.
C18_FailureReturnsError ==
    [][(pc \in {"fence_wait", "start_frame"} /\ pc' # pc /\ ~last'.ok)
          => (pc' # "panicked" /\ UNCHANGED rendererVars)]_vars

\* C19: once a native call of the frame loop has failed, no statement of the loop
\* is executed any more: main's position, the calls made, the slot and image
\* indices, the recorded commands, the descriptor writes and the number of
\* operations handed to the queue and to the presentation engine stay as they are.
C19_FailureEndsLoop ==
    [][(~last.ok) =>
          /\ UNCHANGED <<pc, calls, last, frames, rendererVars, clVars, descriptor_sets>>
          /\ Len(queue') = Len(queue)
          /\ Len(acquires') = Len(acquires)]_vars

\* a call of the third iteration has failed and the GPU has since finished the
\* work of the earlier frames
C19_Witness ==
    /\ ~last.ok
    /\ last.op \in {"cl_reset", "submit"}
    /\ pc = "panicked"
    /\ frames = 2
    /\ Unfinished = {}
    /\ \A s \in Slots : fences[s] = (s # last.slot)

\* the objects created from the device, which must not outlive it
DeviceConsumers ==
    {"descriptor_pool", "command_pool", "allocator", "swapchain_imageviews", "swapchain"}

\* the place of a native object in a sequence of destroy calls
Position(seq, x) == CHOOSE k \in DOMAIN seq : seq[k] = x

Reverse(seq) == [k \in DOMAIN seq |-> seq[Len(seq) + 1 - k]]

\* C20 as claimed: a finished teardown of the Renderer starts with device_wait_idle,
\* then destroys the objects in the reverse of the order Renderer::new created them
\* in, every consumer of the device before the device.
C20_ReverseTeardown ==
    Len(teardown) > 1 =>
        /\ teardown[1] = "device_wait_idle"
        /\ Tail(teardown) = Reverse(ConstructionOrder)
        /\ \A c \in DeviceConsumers :
              Position(teardown, c) < Position(teardown, "device")

\* C21: whatever the order of the drops, Renderer's drop starts only when the
\* CommandList, the Fence, the Semaphores, the Texture and every Arc-shared wrapper
\* are gone, and from then on no wrapper issues a native destroy call.
C21_RendererOutlivesWrappers ==
    /\ [](teardown # <<>> =>
            /\ \A o \in Objs : arc[o].destroyed = 1 /\ arc[o].strong = 0
            /\ ~texture.alive /\ texture.views_destroyed = 1 /\ texture.images_freed = 1
            /\ locals = {}
            /\ ~cl_alive)
    /\ [][teardown # <<>> => UNCHANGED <<arc, texture, locals, cl_alive>>]_vars

\* the Renderer has been torn down after the Texture was dropped last, with a
\* pipeline retained by the CommandList until its drop
C21_Witness ==
    /\ teardown = Renderer_drop_body \o Renderer_field_drops
    /\ last.op = "renderer_drop"
    /\ bound = {"pipeline"}
    /\ handles["pipeline"] = 0

\* C22: in the frame loop reset() takes the current slot's buffer to Idle
\* (initial, no commands) from the state it is in, begin() is called only on an
\* Idle buffer and takes it to Recording, end() is called only on a Recording
\* buffer and takes it to Ready (executable), commands are recorded only into a
\* Recording buffer, and submit() is called only with the current slot's buffer
\* Ready; no buffer ever leaves the state machine.
C22_CommandBufferStates ==
    [][LET cur == CommandList_get_current
           cb == command_buffers[cur]
           cb1 == command_buffers'[cur]
       IN  /\ (pc = "cl_reset" /\ pc' = NextStmt(pc)) =>
                 cb1 = [state |-> "initial", cmds |-> <<>>]
           /\ (pc = "cl_begin" /\ pc' # pc) =>
                 /\ cb.state = "initial"
                 /\ last'.ok => cb1.state = "recording"
           /\ (pc = "cl_end" /\ pc' # pc) =>
                 /\ cb.state = "recording"
                 /\ last'.ok => cb1.state = "executable"
           /\ (pc = "submit" /\ pc' # pc) =>
                 /\ cb.state = "executable"
                 /\ last'.ok => queue'[Len(queue')].cb = cur
           /\ \A s \in Slots :
                 /\ command_buffers'[s].state # "invalid"
                 /\ command_buffers'[s].cmds # command_buffers[s].cmds =>
                       s = cur /\ (pc = "cl_reset" \/ cb.state = "recording")
      ]_vars

\* the third frame has reset and re-recorded slot 0's buffer, which was Ready from
\* the first frame, and has submitted it, while slot 1's buffer stays Ready
C22_Witness ==
    /\ frames = FRAME_OVERLAP
    /\ pc = "present"
    /\ last.op = "submit" /\ last.ok
    /\ \A s \in Slots : command_buffers[s].state = "executable"
    /\ queue[Len(queue)].cb = CommandList_get_current

\* C23: while the CommandList exists, its retained-resource list grows by one on
\* every bind_compute_pipeline call and by two on every bind_descriptor_set call,
\* and no other call (reset, begin, end, submit, ...) nor the GPU changes it; no
\* step removes or replaces an entry.
C23_RetainedListOnlyGrows ==
    [][cl_alive' =>
          /\ Len(owned_resources') = Len(owned_resources) +
                (IF n_calls' # n_calls /\ last'.op = "bind_compute_pipeline" THEN 1
                 ELSE IF n_calls' # n_calls /\ last'.op = "bind_descriptor_set" THEN 2
                 ELSE 0)
          /\ IsPrefix(owned_resources, owned_resources')
      ]_vars

\* a reset that follows a bind_descriptor_set has emptied the command buffer but
\* not the retained list
C23_Witness ==
    /\ last.op = "cl_reset" /\ last.ok
    /\ command_buffers[CommandList_get_current].cmds = <<>>
    /\ owned_resources = <<"pipeline_layout", "descriptor_set">>

\* the image indices the acquires of frame n returned
AcquiredIn(n) == {acquires[i].img : i \in {j \in DOMAIN acquires : acquires[j].frame = n}}

\* the swapchain images the commands recorded in slot s's buffer write to or move
SwapchainImagesOf(s) ==
    LET cmds == command_buffers[s].cmds
    IN  {cmds[k].dst_image : k \in {j \in DOMAIN cmds : cmds[j].cmd = "blit_image2"}}
          \cup {cmds[k].image :
                   k \in {j \in DOMAIN cmds : cmds[j].cmd = "pipeline_barrier2"
                                                 /\ cmds[j].image[1] = "swapchain"}}

\* C24: in the frame loop the stored swapchain image index is always a valid index
\* into the swapchain image list, it is the index the acquire of the frame in
\* progress returned once start_frame has returned, the commands recorded in the
\* frame's buffer address that image only, and every present request of frame n
\* carries the index the acquire of frame n returned.
C24_FrameUsesAcquiredImage ==
    /\ swapchain_image_idx \in 0 .. (NumImages - 1)
    /\ AcquiredIn(frames) # {} => AcquiredIn(frames) = {swapchain_image_idx}
    /\ frames \in DOMAIN cb_at =>
          \A img \in SwapchainImagesOf(cb_at[frames]) :
              img[1] = "swapchain" /\ AcquiredIn(frames) = {img[2]}
    /\ \A i \in DOMAIN queue :
          queue[i].kind = "present" => AcquiredIn(queue[i].frame) = {queue[i].img}

\* two frames acquired different images, each presented the image it acquired, and
\* the third frame has recorded its copy into the image it acquired
C24_Witness ==
    /\ frames = 2
    /\ pc = "cl_end"
    /\ AcquiredIn(0) = {1} /\ AcquiredIn(1) = {2} /\ AcquiredIn(2) = {0}
    /\ SwapchainImagesOf(CommandList_get_current) = {<<"swapchain", 0>>}
    /\ \E i \in DOMAIN queue : queue[i].kind = "present" /\ queue[i].img = 2

\* how often call c occurs among the calls of the current iteration
Count(seq, c) == Cardinality({i \in DOMAIN seq : seq[i] = c})

\* C25: every iteration of the frame loop calls fence.wait() once and fence.reset()
\* once (so k completed iterations make k calls of each), the number of completed
\* iterations is the number of presents, and iteration n (counted from 0) starts
\* with slot index n mod FRAME_OVERLAP: 0,1,0,1,0 for five iterations.
C25_OneWaitOneResetPerIteration ==
    /\ Count(calls, "fence_wait") <= 1
    /\ Count(calls, "fence_reset") <= 1
    /\ pc \notin {"fence_wait", "panicked"} => Count(calls, "fence_wait") = 1
    /\ pc \notin {"fence_wait", "fence_reset", "panicked"} => Count(calls, "fence_reset") = 1
    /\ (pc = "fence_wait" /\ frames > 0) =>
          Count(calls, "fence_wait") = 1 /\ Count(calls, "fence_reset") = 1
    /\ frames = Cardinality({i \in DOMAIN queue : queue[i].kind = "present"})
    /\ pc = "fence_wait" => frame_number = frames % FRAME_OVERLAP
    /\ last.op = "fence_wait" => last.slot = frames % FRAME_OVERLAP

\* four iterations are complete, started with slots 0,1,0,1, and the fifth is
\* about to start with slot 0
C25_Witness ==
    /\ frames = 4
    /\ pc = "fence_wait"
    /\ last.op = "present" /\ last.slot = 1
    /\ calls = MainOrder
    /\ frame_number = 0

\* the slots of the native semaphores in a set of raw semaphores
SlotsOf(raws) == {r[2] : r \in raws}

\* C26: within one frame of the loop every per-slot wrapper resolves to the same
\* slot, the frame's number mod FRAME_OVERLAP: the acquire signals that slot's
\* semaphore, the submission carries that slot's command buffer (the one begin()
\* started recording in this frame), fence, wait and signal semaphores and binds
\* that slot's descriptor-set instance, the present waits on that slot's semaphore,
\* and every call before the frame's present sees that slot.
C26_OneSlotPerFrame ==
    /\ \A i \in DOMAIN acquires :
          LET a == acquires[i]
          IN  a.at = a.frame % FRAME_OVERLAP /\ a.sem[2] = a.at
    /\ \A i \in DOMAIN queue :
          LET q == queue[i]
          IN  /\ q.at = q.frame % FRAME_OVERLAP
              /\ SlotsOf(q.waits \cup q.signals) \subseteq {q.at}
              /\ q.kind = "submit" =>
                    /\ q.cb = q.at /\ q.fence = q.at /\ q.sets = {q.at}
                    /\ q.frame \in DOMAIN cb_at /\ cb_at[q.frame] = q.at
                    /\ q.waits # {} /\ q.signals # {}
              /\ q.kind = "present" => q.waits # {}
    /\ (last.op # "present" \/ ~last.ok) => last.slot = frame_number
    /\ frames = 0 => \A b \in Bindings : descriptor_sets[1][b] = "none"
    /\ (frames = 1 /\ pc \notin {"fence_wait", "fence_reset", "start_frame", "write_texture",
                                   "panicked"})
          => descriptor_sets[1][0] = "texture"

\* the second frame has submitted and presented with slot 1's objects
C26_Witness ==
    /\ frames = 2
    /\ last.op = "present" /\ last.ok /\ last.slot = 1
    /\ \E i \in DOMAIN queue :
          /\ queue[i].kind = "submit" /\ queue[i].at = 1 /\ queue[i].fence = 1
          /\ queue[i].sets = {1} /\ queue[i].cb = 1
    /\ \E i \in DOMAIN acquires : acquires[i].sem = <<"swapchain_semaphore", 1>>

\* the submissions that will still signal slot s's fence
PendingOnFence(s) == {i \in Unfinished : queue[i].fence = s}

\* C27: in the frame loop, when main is about to call fence.reset() no unfinished
\* submission will still signal the current slot's fence, and when it is about to
\* call submit() that fence is unsignaled and no unfinished submission signals it;
\* so every submission in the queue is the only unfinished one on its fence.
C27_FenceFreshAtSubmit ==
    /\ pc = "fence_reset" => PendingOnFence(Fence_get_raw) = {}
    /\ pc = "submit" => ~fences[Fence_get_raw] /\ PendingOnFence(Fence_get_raw) = {}
    /\ \A s \in Slots : Cardinality(PendingOnFence(s)) <= 1
    /\ \A s \in Slots : PendingOnFence(s) # {} => ~fences[s]

\* the third frame is about to submit with slot 0's fence, which the first frame's
\* submission signaled and the reset cleared, while the second frame's submission
\* is still pending on slot 1's fence
C27_Witness ==
    /\ pc = "submit"
    /\ frames = 2
    /\ Fence_get_raw = 0
    /\ ~fences[0]
    /\ PendingOnFence(1) # {}
    /\ \E i \in DOMAIN queue :
          queue[i].kind = "submit" /\ queue[i].fence = 0 /\ queue[i].status = "done"

\* the raw semaphores a step signals: those of a submission that completes and
\* that of an acquire whose image becomes available
SignaledBy(q, q1, a, a1) ==
    UNION {q[i].signals : i \in {j \in DOMAIN q : q[j].kind = "submit"
                                      /\ q[j].status = "running" /\ q1[j].status = "done"}}
      \cup {a[i].sem : i \in {j \in DOMAIN a : ~a[j].done /\ a1[j].done}}

\* the signal operations issued for raw semaphore r in frame n
SignalsIssued(r, n) ==
    {i \in DOMAIN acquires : acquires[i].frame = n /\ acquires[i].sem = r}
      \cup {i \in DOMAIN queue : queue[i].kind = "submit" /\ queue[i].frame = n
                                    /\ r \in queue[i].signals}

\* C28 as claimed: in the frame loop, whatever the timing of the GPU and of the
\* presentation engine, a semaphore that a step signals is unsignaled at that
\* moment (the wait on its previous signal has consumed it), and every semaphore
\* an operation in the queue waits on has a signal issued for it in the same frame.
C28_NoSemaphoreReuse ==
    [][/\ \A r \in SignaledBy(queue, queue', acquires, acquires') : ~semaphores[r]
       /\ \A i \in DOMAIN queue :
             \A w \in queue[i].waits : SignalsIssued(w, queue[i].frame) # {}
      ]_vars

\* the images the recorded commands name
Images == {Texture_image} \cup {<<"swapchain", i>> : i \in 0 .. (NumImages - 1)}

RECURSIVE TrackLayouts(_, _)

\* the layouts of the images after the commands execute in order, from the layouts
\* in st.lay; st.ok turns false at a barrier whose old layout is neither UNDEFINED
\* nor the image's layout, and at a blit whose images are not in the layouts it names
TrackLayouts(cmds, st) ==
    IF cmds = <<>> THEN st
    ELSE LET c == Head(cmds)
             next ==
               CASE c.cmd = "pipeline_barrier2" ->
                      [lay |-> [st.lay EXCEPT ![c.image] = c.new_layout],
                       ok |-> st.ok /\ c.old_layout \in {"UNDEFINED", st.lay[c.image]}]
                 [] c.cmd = "blit_image2" ->
                      [lay |-> st.lay,
                       ok |-> /\ st.ok
                              /\ c.src_image_layout = "TRANSFER_SRC_OPTIMAL"
                              /\ c.dst_image_layout = "TRANSFER_DST_OPTIMAL"
                              /\ st.lay[c.src_image] = c.src_image_layout
                              /\ st.lay[c.dst_image] = c.dst_image_layout]
                 [] OTHER -> st
         IN  TrackLayouts(Tail(cmds), next)

\* the layouts an image can be in when a frame's buffer starts executing: as
\* created (UNDEFINED), or as an earlier frame left it
StartLayoutOf(img) ==
    IF img = Texture_image THEN {"UNDEFINED", "TRANSFER_SRC_OPTIMAL"}
    ELSE {"UNDEFINED", "PRESENT_SRC_KHR"}

\* start layouts of all images: the texture in either of its layouts, the swapchain
\* images all in the one or all in the other of theirs (the commands of one buffer
\* name the texture and one swapchain image, so this covers every combination)
StartLayouts ==
    {[img \in Images |-> IF img = Texture_image THEN t ELSE sw] :
        t \in StartLayoutOf(Texture_image), sw \in StartLayoutOf(<<"swapchain", 0>>)}

\* C29: in the frame loop, from every layout the images can be in when a frame's
\* buffer starts, the barriers recorded so far each have an old layout that is
\* UNDEFINED or the image's tracked layout, and the blit finds its source in
\* TRANSFER_SRC and its destination in TRANSFER_DST; a finished buffer leaves the
\* texture in TRANSFER_SRC, the frame's swapchain image in PRESENT_SRC and the other
\* images as they were, so at present the image presented is in PRESENT_SRC.
C29_LayoutsTracked ==
    \A s \in Slots : \A lay \in StartLayouts :
        LET end == TrackLayouts(command_buffers[s].cmds, [lay |-> lay, ok |-> TRUE])
        IN  /\ end.ok
            /\ command_buffers[s].state = "executable" =>
                  /\ \A img \in Images : end.lay[img] \in StartLayoutOf(img)
                  /\ end.lay[Texture_image] = "TRANSFER_SRC_OPTIMAL"
                  /\ \E i \in 0 .. (NumImages - 1) :
                        /\ end.lay[<<"swapchain", i>>] = "PRESENT_SRC_KHR"
                        /\ \A j \in 0 .. (NumImages - 1) :
                              j # i => end.lay[<<"swapchain", j>>] = lay[<<"swapchain", j>>]
            /\ (s = CommandList_get_current /\ pc = "present") =>
                  end.lay[Renderer_get_current_swapchain_img] = "PRESENT_SRC_KHR"

\* the third frame, which found the texture in TRANSFER_SRC and its swapchain
\* image in PRESENT_SRC from the first frame, is about to present that image
C29_Witness ==
    /\ pc = "present"
    /\ frames = 2
    /\ AcquiredIn(0) = {1} /\ AcquiredIn(2) = {1}
    /\ Len(command_buffers[CommandList_get_current].cmds) = 8
    /\ command_buffers[CommandList_get_current].state = "executable"

\* the objects o holds handles to, directly
Held(o) == {Fields(o)[i] : i \in DOMAIN Fields(o)}

RECURSIVE HeldWithin(_, _)

\* the objects reached from the set S over at most n further handles
HeldWithin(S, n) ==
    IF n = 0 THEN S ELSE HeldWithin(S \cup UNION {Held(p) : p \in S}, n - 1)

\* per object, the objects it keeps alive, directly or through other objects
DescendantsOf == [o \in Objs |-> HeldWithin(Held(o), Cardinality(Objs))]

Descendants(o) == DescendantsOf[o]

\* C30: no object keeps itself alive (the ownership graph has no cycle); an object
\* is never destroyed while an object built from it exists; while the CommandList
\* exists with a pipeline and a descriptor set bound, these two and everything they
\* were built from (shader, pipeline layout, descriptor-set layout) are alive; and
\* once the CommandList and every caller handle are dropped, every object has been
\* destroyed, exactly once.
C30_TransitiveAcyclicOwnership ==
    /\ \A o \in Objs : o \notin Descendants(o)
    /\ \A p \in Objs : arc[p].destroyed = 0 =>
          \A o \in Descendants(p) : arc[o].destroyed = 0 /\ arc[o].strong >= 1
    /\ (cl_alive /\ {"pipeline", "descriptor_set"} \subseteq bound) =>
          \A o \in {"pipeline", "descriptor_set"} \cup Descendants("pipeline")
                     \cup Descendants("descriptor_set") :
              arc[o].destroyed = 0
    /\ (~cl_alive /\ \A o \in Objs : handles[o] = 0) =>
          \A o \in Objs : arc[o].destroyed = 1 /\ arc[o].strong = 0

\* a pipeline and a descriptor set were bound, the caller dropped all its handles
\* while the CommandList existed, and the drop of the CommandList destroyed all
C30_Witness ==
    /\ ~cl_alive
    /\ last.op = "drop_command_list"
    /\ bound = {"pipeline", "pipeline_layout", "descriptor_set"}
    /\ \A o \in Objs : handles[o] = 0 /\ arc[o].destroyed = 1

\* C31 as claimed: for every list of queue families, device selection whose native
\* queries succeed accepts the device exactly when the list has a family supporting
\* graphics and a family supporting present, a single family doing both included.
C31_AcceptsGraphicsAndPresent ==
    (last.op = "select_physical_device" /\ last.ok)
        => (pc # "panicked" <=> /\ \E i \in DOMAIN props : props[i].graphics
                                /\ \E i \in DOMAIN props : props[i].present)

\* C32 as claimed: every present request present() has issued went to a queue of
\* the family device selection found to support presentation (present_queue's).
C32_PresentOnPresentQueue ==
    \A i \in DOMAIN queue : queue[i].kind = "present" => queue[i].family = present_queue

====
